---- MODULE Spec2Model ----
(***************************************************************************)
(* Model of the traffic monitoring program: the TrafficLightController     *)
(* (src/traffic_logic/traffic_light.py), the VideoAnalyzer pipeline        *)
(* (src/analyzer/analyzer.py) and the queries of src/app.py.               *)
(*                                                                         *)
(* Durations are kept in half seconds, so that 0.5 s per vehicle is the    *)
(* integer 1 and every duration the program computes is an exact integer.  *)
(* The wall clock (now) is counted in whole seconds from construction.     *)
(*                                                                         *)
(* Specifications, each a set of threads that are scheduled:               *)
(*   Spec        the cycle thread, one stream consumer, one status query,  *)
(*               before the clock makes a capture due;                     *)
(*   SpecQuery   the cycle thread and the status queries;                  *)
(*   SpecUpdate  the cycle thread and one update_logic_with_analysis call  *)
(*               with any analysis data;                                   *)
(*   SpecPipe    one stream consumer and the wall clock;                   *)
(*   SpecLive    the cycle thread and one stream consumer, under fair      *)
(*               scheduling of the cycle thread and of lock holders;       *)
(*   SpecRace    several stream consumers and the wall clock, without a    *)
(*               detection model;                                          *)
(*   SpecLocks   the cycle thread, the update call of every generator      *)
(*               thread and the status queries.                            *)
(***************************************************************************)
EXTENDS Integers, Sequences, FiniteSets, TLC

\* ------------------------------------------------------------------ bounds
NumPipes == 2
NumQueries == 1
NumFrames == 2
MaxDetections == 2
MaxVehicles == 41
MaxTime == 12

\* ------------------------------------------------------- program constants
green_light_base_duration == 5
green_light_max_duration == 20
RED_DURATION == 15
YELLOW_DURATION == 3
capture_interval == 5

Unset == 0 - 1

\* A duration of s seconds, in half seconds.
Halves(s) == 2 * s

Light == {"red", "green", "yellow"}

Pipes == 1 .. NumPipes
Queries == 1 .. NumQueries

\* Thread identities (lock holders).
NoThread == <<"none", 0>>
Ctl == <<"ctl", 0>>
PipeThread(p) == <<"pipe", p>>
QueryThread(q) == <<"query", q>>

VARIABLES
    state,                    \* TrafficLightController.state
    state_lock,               \* holder of state_lock
    current_green_duration,   \* suggested green duration, half seconds
    duration_lock,            \* holder of duration_lock
    phase,                    \* the block of the cycle loop the thread is in
    cpc,                      \* position of the cycle thread inside that block
    current_duration,         \* local of _run_dynamic_cycle
    sleepArg,                 \* argument of the time.sleep in progress
    qpc,                      \* position of each get_state call
    snap,                     \* the dict each get_state call is building
    held,                     \* history: values state held during each call
    model,                    \* "loaded" or "none" (self.model is None)
    video_ok,                 \* whether VideoCapture opens the video
    latest_analysis_data,     \* VideoAnalyzer.latest_analysis_data
    last_capture_time,        \* VideoAnalyzer.last_capture_time
    now,                      \* the reading time.time() gives
    ppc,                      \* position of each generate_frames generator
    handle,                   \* each generator's video_capture
    pos,                      \* each video_capture's next frame index
    frame,                    \* local frame of each generator
    analysis_data,            \* local analysis_data of each generator
    labels,                   \* local labels of each process_frame call
    current_time,             \* local current_time of each generator
    last_pulled,              \* history: last frame each generator read
    last_emitted,             \* history: last frame each generator yielded
    captures,                 \* history: readings at which _save_frame ran
    last_update               \* history: analysis data of the last duration written

ctlVars == <<phase, cpc, current_duration, sleepArg>>
stateVars == <<state, state_lock>>
durVars == <<current_green_duration, duration_lock, last_update>>
queryVars == <<qpc, snap, held>>
analyzerVars == <<model, video_ok, latest_analysis_data, last_capture_time>>
pipeVars == <<ppc, handle, pos, frame, analysis_data, current_time,
              last_pulled, last_emitted, captures, labels>>
vars == <<state, state_lock, current_green_duration, duration_lock, phase, cpc,
          current_duration, sleepArg, qpc, snap, held, model, video_ok,
          latest_analysis_data, last_capture_time, now, ppc, handle, pos, frame,
          analysis_data, current_time, last_pulled, last_emitted, captures,
          last_update, labels>>

\* --------------------------------------------------------------- dict.get
Get(d, key, default) == IF key \in DOMAIN d THEN d[key] ELSE default

Min(a, b) == IF a < b THEN a ELSE b
Max(a, b) == IF a > b THEN a ELSE b

\* ------------------------------------------------ traffic_light.py, timing
\* Variant adding a whole second per vehicle.
CalculatedDurationPerSecond(vehicle_count) ==
    Halves(green_light_base_duration) + Halves(vehicle_count)

\* calculated_duration = base + vehicle_count * 0.5 (half seconds).
CalculatedDuration(vehicle_count) ==
    Halves(green_light_base_duration) + vehicle_count

\* Variant of the clamp without the upper limit.
ClampDurationNoMax(calculated_duration) ==
    Max(Halves(green_light_base_duration), calculated_duration)

\* max(base, min(calculated_duration, max)).
ClampDuration(calculated_duration) ==
    Max(Halves(green_light_base_duration),
        Min(calculated_duration, Halves(green_light_max_duration)))

\* The value update_logic_with_analysis stores for analysis data d.
SuggestedDuration(d) ==
    ClampDuration(CalculatedDuration(Get(d, "vehicle_count", 0)))

\* ------------------------------------------------- traffic_light.py, cycle
\* Variant of the loop order with the yellow block left out.
NextPhaseSkipYellow(ph) ==
    CASE ph = "red" -> "green"
      [] ph = "green" -> "red"
      [] ph = "yellow" -> "red"

\* The order of the three blocks of the while True loop.
NextPhase(ph) ==
    CASE ph = "red" -> "green"
      [] ph = "green" -> "yellow"
      [] ph = "yellow" -> "red"

\* The argument of time.sleep in each block.
Dwell(ph, dur) ==
    CASE ph = "red" -> Halves(RED_DURATION)
      [] ph = "green" -> dur
      [] ph = "yellow" -> Halves(YELLOW_DURATION)

\* _set_state: entering "with self.state_lock".
CtlSetAcquire ==
    /\ cpc = "set_state"
    /\ state_lock = NoThread
    /\ state_lock' = Ctl
    /\ cpc' = "set_state_locked"
    /\ UNCHANGED <<state, phase, current_duration, sleepArg>>
    /\ UNCHANGED <<durVars, queryVars, analyzerVars, now, pipeVars>>

\* _set_state: the test and the assignment inside the with block; when
\* nothing changes the block is left at once.
CtlSetWrite ==
    /\ cpc = "set_state_locked"
    /\ state' = IF state # phase THEN phase ELSE state
    /\ held' = [q \in Queries |->
                  IF qpc[q] \in {"idle", "done"} THEN held[q]
                  ELSE held[q] \cup {state'}]
    /\ IF state # phase
       THEN /\ cpc' = "set_state_print"
            /\ UNCHANGED state_lock
       ELSE /\ cpc' = IF phase = "green" THEN "read_duration" ELSE "call_sleep"
            /\ state_lock' = NoThread
    /\ UNCHANGED <<phase, current_duration, sleepArg, qpc, snap>>
    /\ UNCHANGED <<durVars, analyzerVars, now, pipeVars>>

\* Variant of _set_state that leaves the with block without releasing.
CtlSetPrintKeepLock ==
    /\ cpc = "set_state_print"
    /\ cpc' = IF phase = "green" THEN "read_duration" ELSE "call_sleep"
    /\ UNCHANGED <<state, state_lock, phase, current_duration, sleepArg>>
    /\ UNCHANGED <<durVars, queryVars, analyzerVars, now, pipeVars>>

\* _set_state: print("Traffic light state changed to ...") inside the with
\* block, and leaving it.
CtlSetPrint ==
    /\ cpc = "set_state_print"
    /\ state_lock' = NoThread
    /\ cpc' = IF phase = "green" THEN "read_duration" ELSE "call_sleep"
    /\ UNCHANGED <<state, phase, current_duration, sleepArg>>
    /\ UNCHANGED <<durVars, queryVars, analyzerVars, now, pipeVars>>

\* Green block: entering "with self.duration_lock".
CtlDurAcquire ==
    /\ cpc = "read_duration"
    /\ duration_lock = NoThread
    /\ duration_lock' = Ctl
    /\ cpc' = "read_duration_locked"
    /\ UNCHANGED <<current_green_duration, last_update, phase,
                   current_duration, sleepArg>>
    /\ UNCHANGED <<stateVars, queryVars, analyzerVars, now, pipeVars>>

\* Green block: current_duration = self.current_green_duration, and leaving.
CtlDurRead ==
    /\ cpc = "read_duration_locked"
    /\ current_duration' = current_green_duration
    /\ duration_lock' = NoThread
    /\ cpc' = "call_sleep"
    /\ UNCHANGED <<current_green_duration, last_update, phase, sleepArg>>
    /\ UNCHANGED <<stateVars, queryVars, analyzerVars, now, pipeVars>>

\* time.sleep(15), time.sleep(current_duration), time.sleep(3): the call.
CtlSleep ==
    /\ cpc = "call_sleep"
    /\ sleepArg' = Dwell(phase, current_duration)
    /\ cpc' = "sleeping"
    /\ UNCHANGED <<phase, current_duration>>
    /\ UNCHANGED <<stateVars, durVars, queryVars, analyzerVars, now, pipeVars>>

\* time.sleep returns; the loop goes on to its next block.
CtlWake ==
    /\ cpc = "sleeping"
    /\ sleepArg' = Unset
    /\ phase' = NextPhase(phase)
    /\ cpc' = "set_state"
    /\ UNCHANGED <<current_duration>>
    /\ UNCHANGED <<stateVars, durVars, queryVars, analyzerVars, now, pipeVars>>

\* One step of the cycle thread.
Controller ==
    \/ CtlSetAcquire
    \/ CtlSetWrite
    \/ CtlSetPrint
    \/ CtlDurAcquire
    \/ CtlDurRead
    \/ CtlSleep
    \/ CtlWake

\* --------------------------------------------- traffic_light.py, get_state
EmptyDict == [k \in {} |-> FALSE]

\* Variant of get_state that reads without taking state_lock.
GetStateNoLock(q) ==
    /\ qpc[q] \in {"idle", "done"}
    /\ qpc' = [qpc EXCEPT ![q] = "red"]
    /\ snap' = [snap EXCEPT ![q] = EmptyDict]
    /\ held' = [held EXCEPT ![q] = {state}]
    /\ UNCHANGED <<stateVars, ctlVars, durVars, analyzerVars, now, pipeVars>>

\* get_state: entering "with self.state_lock".
GetStateAcquire(q) ==
    /\ qpc[q] \in {"idle", "done"}
    /\ state_lock = NoThread
    /\ state_lock' = QueryThread(q)
    /\ qpc' = [qpc EXCEPT ![q] = "red"]
    /\ snap' = [snap EXCEPT ![q] = EmptyDict]
    /\ held' = [held EXCEPT ![q] = {state}]
    /\ UNCHANGED <<state, ctlVars, durVars, analyzerVars, now, pipeVars>>

\* 'red': self.state == 'red'
GetStateRed(q) ==
    /\ qpc[q] = "red"
    /\ snap' = [snap EXCEPT ![q] = @ @@ ("red" :> (state = "red"))]
    /\ qpc' = [qpc EXCEPT ![q] = "yellow"]
    /\ UNCHANGED <<held, stateVars, ctlVars, durVars, analyzerVars, now, pipeVars>>

\* 'yellow': self.state == 'yellow'
GetStateYellow(q) ==
    /\ qpc[q] = "yellow"
    /\ snap' = [snap EXCEPT ![q] = @ @@ ("yellow" :> (state = "yellow"))]
    /\ qpc' = [qpc EXCEPT ![q] = "green"]
    /\ UNCHANGED <<held, stateVars, ctlVars, durVars, analyzerVars, now, pipeVars>>

\* 'green': self.state == 'green'; the dict is returned and the lock released.
GetStateGreen(q) ==
    /\ qpc[q] = "green"
    /\ snap' = [snap EXCEPT ![q] = @ @@ ("green" :> (state = "green"))]
    /\ qpc' = [qpc EXCEPT ![q] = "done"]
    /\ state_lock' = NoThread
    /\ UNCHANGED <<held, state, ctlVars, durVars, analyzerVars, now, pipeVars>>

\* One step of a get_state call of the /traffic_light_status route.
Query(q) ==
    \/ GetStateAcquire(q)
    \/ GetStateRed(q)
    \/ GetStateYellow(q)
    \/ GetStateGreen(q)

\* ------------------------------- traffic_light.py, update_logic_with_analysis
\* update_logic_with_analysis: entering "with self.duration_lock".
UpdateAcquire(p) ==
    /\ ppc[p] = "update"
    /\ duration_lock = NoThread
    /\ duration_lock' = PipeThread(p)
    /\ ppc' = [ppc EXCEPT ![p] = "update_locked"]
    /\ UNCHANGED <<current_green_duration, last_update>>
    /\ UNCHANGED <<handle, pos, frame, analysis_data, current_time,
                   last_pulled, last_emitted, captures, labels>>
    /\ UNCHANGED <<stateVars, ctlVars, queryVars, analyzerVars, now>>

\* update_logic_with_analysis whose with block is never left: the variant
\* against which the progress of the cycle is tested.
UpdateWriteKeepLock(p) ==
    /\ ppc[p] = "update_locked"
    /\ current_green_duration' = SuggestedDuration(analysis_data[p])
    /\ last_update' = analysis_data[p]
    /\ UNCHANGED <<duration_lock, ppc>>
    /\ UNCHANGED <<handle, pos, frame, analysis_data, current_time,
                   last_pulled, last_emitted, captures, labels>>
    /\ UNCHANGED <<stateVars, ctlVars, queryVars, analyzerVars, now>>

\* Variant of update_logic_with_analysis that also restarts a green dwell in
\* progress with the new duration.
UpdateWriteRetroactive(p) ==
    /\ ppc[p] = "update_locked"
    /\ current_green_duration' = SuggestedDuration(analysis_data[p])
    /\ last_update' = analysis_data[p]
    /\ duration_lock' = NoThread
    /\ sleepArg' = IF phase = "green" /\ cpc = "sleeping"
                   THEN current_green_duration' ELSE sleepArg
    /\ ppc' = [ppc EXCEPT ![p] = "capture_check"]
    /\ UNCHANGED <<phase, cpc, current_duration>>
    /\ UNCHANGED <<handle, pos, frame, analysis_data, current_time,
                   last_pulled, last_emitted, captures, labels>>
    /\ UNCHANGED <<stateVars, queryVars, analyzerVars, now>>

\* Variant of update_logic_with_analysis that also turns the light green
\* when the suggested duration exceeds the base.
UpdateWriteSetsState(p) ==
    /\ ppc[p] = "update_locked"
    /\ current_green_duration' = SuggestedDuration(analysis_data[p])
    /\ last_update' = analysis_data[p]
    /\ duration_lock' = NoThread
    /\ state' = IF current_green_duration' > Halves(green_light_base_duration)
                THEN "green" ELSE state
    /\ ppc' = [ppc EXCEPT ![p] = "capture_check"]
    /\ UNCHANGED <<state_lock, ctlVars, queryVars, analyzerVars, now>>
    /\ UNCHANGED <<handle, pos, frame, analysis_data, current_time,
                   last_pulled, last_emitted, captures, labels>>

\* update_logic_with_analysis: the clamped write, and leaving the with block.
UpdateWrite(p) ==
    /\ ppc[p] = "update_locked"
    /\ current_green_duration' = SuggestedDuration(analysis_data[p])
    /\ last_update' = analysis_data[p]
    /\ duration_lock' = NoThread
    /\ ppc' = [ppc EXCEPT ![p] = "capture_check"]
    /\ UNCHANGED <<handle, pos, frame, analysis_data, current_time,
                   last_pulled, last_emitted, captures, labels>>
    /\ UNCHANGED <<stateVars, ctlVars, queryVars, analyzerVars, now>>

\* ------------------------------------------------ analyzer.py, process_frame
\* results.names[label_id]: a sample of the labels the detector reports, one
\* of them a vehicle class and one not.
Labels == {"truck", "person"}

\* Variant of the vehicle classes without trucks.
VehicleLabelsNoTruck == {"car", "motorcycle", "bus"}

\* if label_name in ['car', 'motorcycle', 'bus', 'truck']
VehicleLabels == {"car", "motorcycle", "bus", "truck"}

\* The label sequences one model(frame) call can return.
Detections == UNION {[1 .. n -> Labels] : n \in 0 .. MaxDetections}

\* The loop over range(n): vehicle_count += 1 for each vehicle label.
RECURSIVE CountVehicles(_, _)
CountVehicles(ls, i) ==
    IF i > Len(ls) THEN 0
    ELSE (IF ls[i] \in VehicleLabels THEN 1 ELSE 0)
         + CountVehicles(ls, i + 1)

InitialAnalysis == [vehicle_count |-> 0, status |-> "Initializing..."]
NotLoadedAnalysis == [vehicle_count |-> 0, status |-> "Model not loaded"]
ProcessingAnalysis(n) == [vehicle_count |-> n, status |-> "Processing"]

\* get_latest_analysis: return self.latest_analysis_data.
get_latest_analysis == latest_analysis_data

\* process_frame when self.model is None: the early return.
ProcessNoModel(p) ==
    /\ ppc[p] = "process"
    /\ model = "none"
    /\ analysis_data' = [analysis_data EXCEPT ![p] = NotLoadedAnalysis]
    /\ ppc' = [ppc EXCEPT ![p] = "update"]
    /\ UNCHANGED <<handle, pos, frame, current_time, last_pulled,
                   last_emitted, captures, labels>>
    /\ UNCHANGED <<stateVars, ctlVars, durVars, queryVars, analyzerVars, now>>

\* process_frame with a model: results = self.model(frame) returns, and
\* labels is taken from it.
ProcessDetect(p, result) ==
    /\ ppc[p] = "process"
    /\ model = "loaded"
    /\ labels' = [labels EXCEPT ![p] = result]
    /\ ppc' = [ppc EXCEPT ![p] = "count"]
    /\ UNCHANGED <<handle, pos, frame, analysis_data, current_time,
                   last_pulled, last_emitted, captures>>
    /\ UNCHANGED <<stateVars, ctlVars, durVars, queryVars, analyzerVars, now>>

\* Variant of process_frame that updates the retained dict in place, one key
\* before the other.
ProcessCountInPlace(p) ==
    /\ ppc[p] = "count"
    /\ analysis_data' = [analysis_data EXCEPT
                           ![p] = ProcessingAnalysis(CountVehicles(labels[p], 1))]
    /\ latest_analysis_data' =
          [latest_analysis_data EXCEPT
              !.vehicle_count = analysis_data'[p].vehicle_count]
    /\ labels' = [labels EXCEPT ![p] = <<>>]
    /\ ppc' = [ppc EXCEPT ![p] = "update"]
    /\ UNCHANGED <<handle, pos, frame, current_time, last_pulled,
                   last_emitted, captures>>
    /\ UNCHANGED <<model, video_ok, last_capture_time>>
    /\ UNCHANGED <<stateVars, ctlVars, durVars, queryVars, now>>

\* process_frame with a model: the counting and drawing loop, the retained
\* result replaced, and the return (the locals are gone).
ProcessCount(p) ==
    /\ ppc[p] = "count"
    /\ analysis_data' = [analysis_data EXCEPT
                           ![p] = ProcessingAnalysis(CountVehicles(labels[p], 1))]
    /\ latest_analysis_data' = analysis_data'[p]
    /\ labels' = [labels EXCEPT ![p] = <<>>]
    /\ ppc' = [ppc EXCEPT ![p] = "update"]
    /\ UNCHANGED <<handle, pos, frame, current_time, last_pulled,
                   last_emitted, captures>>
    /\ UNCHANGED <<model, video_ok, last_capture_time>>
    /\ UNCHANGED <<stateVars, ctlVars, durVars, queryVars, now>>

\* process_frame with a model whose call raises: nothing catches it, the
\* exception leaves process_frame and generate_frames.
ProcessRaise(p) ==
    /\ ppc[p] = "process"
    /\ model = "loaded"
    /\ ppc' = [ppc EXCEPT ![p] = "raised"]
    /\ UNCHANGED <<handle, pos, frame, analysis_data, current_time,
                   last_pulled, last_emitted, captures, labels>>
    /\ UNCHANGED <<stateVars, ctlVars, durVars, queryVars, analyzerVars, now>>

\* ---------------------------------------------- analyzer.py, generate_frames
\* The frame handed on after process_frame: the frame read and the number of
\* rectangles drawn on its copy.
ProcessedFrame(p) ==
    [index |-> frame[p],
     boxes |-> IF analysis_data[p].status = "Processing"
               THEN analysis_data[p].vehicle_count ELSE 0]

\* Variant of the first next() without the isOpened test.
OpenUnchecked(p) ==
    /\ ppc[p] = "not_started"
    /\ handle' = [handle EXCEPT ![p] = IF video_ok THEN "open" ELSE "unopened"]
    /\ ppc' = [ppc EXCEPT ![p] = "read"]
    /\ UNCHANGED <<pos, frame, analysis_data, current_time, last_pulled,
                   last_emitted, captures, labels>>
    /\ UNCHANGED <<stateVars, ctlVars, durVars, queryVars, analyzerVars, now>>

\* First next() of the consumer: VideoCapture(path) and the isOpened test.
Open(p) ==
    /\ ppc[p] = "not_started"
    /\ IF video_ok
       THEN /\ handle' = [handle EXCEPT ![p] = "open"]
            /\ ppc' = [ppc EXCEPT ![p] = "read"]
       ELSE /\ handle' = [handle EXCEPT ![p] = "unopened"]
            /\ ppc' = [ppc EXCEPT ![p] = "finished"]
    /\ UNCHANGED <<pos, frame, analysis_data, current_time, last_pulled,
                   last_emitted, captures, labels>>
    /\ UNCHANGED <<stateVars, ctlVars, durVars, queryVars, analyzerVars, now>>

\* Variant seeking to the second frame.
SeekTargetSecondFrame == 0 + 1

\* video_capture.set(cv2.CAP_PROP_POS_FRAMES, 0)
SeekTarget == 0

\* success, frame = video_capture.read(); on failure seek to 0 and continue.
Read(p) ==
    /\ ppc[p] = "read"
    /\ IF pos[p] < NumFrames
       THEN /\ frame' = [frame EXCEPT ![p] = pos[p]]
            /\ pos' = [pos EXCEPT ![p] = @ + 1]
            /\ last_pulled' = [last_pulled EXCEPT ![p] = pos[p]]
            /\ ppc' = [ppc EXCEPT ![p] = "process"]
       ELSE /\ frame' = [frame EXCEPT ![p] = Unset]
            /\ pos' = [pos EXCEPT ![p] = SeekTarget]
            /\ UNCHANGED <<last_pulled, ppc>>
    /\ UNCHANGED <<handle, analysis_data, current_time, last_emitted, captures, labels>>
    /\ UNCHANGED <<stateVars, ctlVars, durVars, queryVars, analyzerVars, now>>

\* Variant of the test that leaves out last_capture_time.
CaptureDueSinceEpoch(t, last) == t > capture_interval

\* current_time - self.last_capture_time > self.capture_interval
CaptureDue(t, last) == t - last > capture_interval

\* current_time = time.time() and the test of the elapsed time.
CaptureCheck(p) ==
    /\ ppc[p] = "capture_check"
    /\ current_time' = [current_time EXCEPT ![p] = now]
    /\ ppc' = [ppc EXCEPT ![p] =
                 IF CaptureDue(now, last_capture_time) THEN "save" ELSE "encode"]
    /\ UNCHANGED <<handle, pos, frame, analysis_data, last_pulled,
                   last_emitted, captures, labels>>
    /\ UNCHANGED <<stateVars, ctlVars, durVars, queryVars, analyzerVars, now>>

\* self._save_frame(processed_frame); self.last_capture_time = current_time
SaveFrame(p) ==
    /\ ppc[p] = "save"
    /\ captures' = Append(captures, current_time[p])
    /\ last_capture_time' = current_time[p]
    /\ ppc' = [ppc EXCEPT ![p] = "encode"]
    /\ UNCHANGED <<handle, pos, frame, analysis_data, current_time,
                   last_pulled, last_emitted, labels>>
    /\ UNCHANGED <<model, video_ok, latest_analysis_data>>
    /\ UNCHANGED <<stateVars, ctlVars, durVars, queryVars, now>>

\* cv2.imencode succeeds: the chunk is yielded and the generator is suspended.
EncodeYield(p) ==
    /\ ppc[p] = "encode"
    /\ last_emitted' = [last_emitted EXCEPT ![p] = ProcessedFrame(p)]
    /\ ppc' = [ppc EXCEPT ![p] = "yielded"]
    /\ UNCHANGED <<handle, pos, frame, analysis_data, current_time,
                   last_pulled, captures, labels>>
    /\ UNCHANGED <<stateVars, ctlVars, durVars, queryVars, analyzerVars, now>>

\* Variant in which a failed cv2.imencode ends the generator.
EncodeFailReturns(p) ==
    /\ ppc[p] = "encode"
    /\ ppc' = [ppc EXCEPT ![p] = "finished"]
    /\ UNCHANGED <<handle, pos, frame, analysis_data, current_time,
                   last_pulled, last_emitted, captures, labels>>
    /\ UNCHANGED <<stateVars, ctlVars, durVars, queryVars, analyzerVars, now>>

\* cv2.imencode fails: "if not ret: continue".
EncodeFail(p) ==
    /\ ppc[p] = "encode"
    /\ ppc' = [ppc EXCEPT ![p] = "read"]
    /\ UNCHANGED <<handle, pos, frame, analysis_data, current_time,
                   last_pulled, last_emitted, captures, labels>>
    /\ UNCHANGED <<stateVars, ctlVars, durVars, queryVars, analyzerVars, now>>

\* The consumer asks for the next chunk: time.sleep(1/30), then the loop.
Resume(p) ==
    /\ ppc[p] = "yielded"
    /\ ppc' = [ppc EXCEPT ![p] = "read"]
    /\ UNCHANGED <<handle, pos, frame, analysis_data, current_time,
                   last_pulled, last_emitted, captures, labels>>
    /\ UNCHANGED <<stateVars, ctlVars, durVars, queryVars, analyzerVars, now>>

\* The consumer disconnects: the generator is closed at its yield. No
\* try/finally surrounds the loop and the release() after it is never reached.
Cancel(p) ==
    /\ ppc[p] = "yielded"
    /\ ppc' = [ppc EXCEPT ![p] = "closed"]
    /\ UNCHANGED <<handle, pos, frame, analysis_data, current_time,
                   last_pulled, last_emitted, captures, labels>>
    /\ UNCHANGED <<stateVars, ctlVars, durVars, queryVars, analyzerVars, now>>

\* The wall clock advances.
Tick ==
    /\ now < MaxTime
    /\ now' = now + 1
    /\ UNCHANGED <<stateVars, ctlVars, durVars, queryVars, analyzerVars, pipeVars>>

\* -------------------------------------------------------------- app.py, Init
\* The state after the two constructors of app.py have run.
ConstructedWith(m, v) ==
    /\ state = "red"
    /\ state_lock = NoThread
    /\ current_green_duration = Halves(green_light_base_duration)
    /\ duration_lock = NoThread
    /\ phase = "red"
    /\ cpc = "set_state"
    /\ current_duration = Unset
    /\ sleepArg = Unset
    /\ qpc = [q \in Queries |-> "idle"]
    /\ snap = [q \in Queries |-> EmptyDict]
    /\ held = [q \in Queries |-> {}]
    /\ model = m
    /\ video_ok = v
    /\ latest_analysis_data = InitialAnalysis
    /\ last_capture_time = 0
    /\ now = 0
    /\ ppc = [p \in Pipes |-> "not_started"]
    /\ handle = [p \in Pipes |-> "none"]
    /\ pos = [p \in Pipes |-> 0]
    /\ frame = [p \in Pipes |-> Unset]
    /\ analysis_data = [p \in Pipes |-> InitialAnalysis]
    /\ current_time = [p \in Pipes |-> Unset]
    /\ last_pulled = [p \in Pipes |-> Unset]
    /\ last_emitted = [p \in Pipes |-> [index |-> Unset, boxes |-> 0]]
    /\ captures = <<>>
    /\ labels = [p \in Pipes |-> <<>>]
    /\ last_update = EmptyDict

Init == \E m \in {"loaded", "none"} : \E v \in BOOLEAN : ConstructedWith(m, v)

\* One step of generate_frames up to and including the controller update.
Analyse(p) ==
    \/ Open(p)
    \/ Read(p)
    \/ ProcessNoModel(p)
    \/ \E result \in Detections : ProcessDetect(p, result)
    \/ ProcessCount(p)
    \/ ProcessRaise(p)
    \/ UpdateAcquire(p)
    \/ UpdateWrite(p)

\* One step of the rest of an iteration of generate_frames.
Emit(p) ==
    \/ CaptureCheck(p)
    \/ EncodeYield(p)
    \/ EncodeFail(p)
    \/ Resume(p)
    \/ Cancel(p)

\* The cycle thread, one stream consumer and one status query, over the time
\* in which the wall clock has not yet made a capture due.
Next ==
    \/ Controller
    \/ Analyse(1)
    \/ Emit(1)
    \/ Query(1)

Spec == Init /\ [][Next]_vars

\* The cycle thread and the get_state calls of the status route.
NextQuery ==
    \/ Controller
    \/ \E q \in Queries : Query(q)

SpecQuery == Init /\ [][NextQuery]_vars

\* The analysis data a caller can hand to update_logic_with_analysis: any
\* vehicle count, or a dict without the vehicle_count key.
UpdateInputs ==
    {ProcessingAnalysis(n) : n \in 0 .. MaxVehicles}
        \cup {[status |-> "Processing"]}

\* A direct call update_logic_with_analysis(d).
CallUpdate(p, d) ==
    /\ ppc[p] = "not_started"
    /\ analysis_data' = [analysis_data EXCEPT ![p] = d]
    /\ ppc' = [ppc EXCEPT ![p] = "update"]
    /\ UNCHANGED <<handle, pos, frame, current_time, last_pulled,
                   last_emitted, captures, labels>>
    /\ UNCHANGED <<stateVars, ctlVars, durVars, queryVars, analyzerVars, now>>

\* The cycle thread and one call of update_logic_with_analysis with any input.
NextUpdate ==
    \/ Controller
    \/ \E d \in UpdateInputs : CallUpdate(1, d)
    \/ UpdateAcquire(1)
    \/ UpdateWrite(1)

SpecUpdate == Init /\ [][NextUpdate]_vars

\* One stream consumer and the wall clock; the cycle thread is not scheduled.
NextPipe ==
    \/ Analyse(1)
    \/ Emit(1)
    \/ SaveFrame(1)
    \/ Tick

SpecPipe == Init /\ [][NextPipe]_vars

\* ------------------------------------------------------------ properties
\* The three changes of the cycle.
LightCycle == {<<"red", "green">>, <<"green", "yellow">>, <<"yellow", "red">>}

\* The duration the specification gives for c vehicles:
\* clamp(base + c * 0.5 s, base, max), in half seconds.
SpecifiedDuration(c) ==
    IF Halves(5) + c < Halves(5) THEN Halves(5)
    ELSE IF Halves(5) + c > Halves(20) THEN Halves(20)
    ELSE Halves(5) + c

\* The cycle thread performs the read of the Green block in this step.
GreenEntryRead == cpc = "read_duration_locked" /\ cpc' = "call_sleep"

\* C1: state starts at red, and every change of state is red->green,
\* green->yellow or yellow->red, whatever the pipeline and the query do.
C1_CycleOrder ==
    /\ state = "red"
    /\ [][state' # state => <<state, state'>> \in LightCycle]_vars

\* C1 witness: the cycle has gone through green and yellow and is red again.
C1_Witness ==
    /\ state = "red"
    /\ phase = "red"
    /\ cpc = "sleeping"
    /\ current_duration # Unset
    /\ ppc[1] = "yielded"
    /\ qpc[1] = "done"

\* C2: every dict get_state returns has the three flags, exactly one of them
\* true, and the true one names a value state held while the call ran.
C2_SnapshotExactlyOne ==
    \A q \in Queries :
        qpc[q] = "done" =>
            /\ DOMAIN snap[q] = Light
            /\ Cardinality({k \in Light : snap[q][k]}) = 1
            /\ \A k \in Light : snap[q][k] => k \in held[q]

\* C2 witness: a call returned while the cycle thread was waiting to leave
\* yellow, and reported yellow.
C2_Witness ==
    \E q \in Queries :
        /\ qpc[q] = "done"
        /\ snap[q]["yellow"]
        /\ phase = "red"
        /\ cpc = "set_state"

\* C3 (as claimed): the duration read at each Green entry is the clamp of the
\* vehicle count of the result get_latest_analysis returns at that instant.
C3_DwellFromRetainedResult ==
    [][GreenEntryRead =>
         current_duration' =
             SpecifiedDuration(get_latest_analysis.vehicle_count)]_vars

\* C4 (as claimed): with no model, once a generator has run process_frame,
\* get_latest_analysis reports 0 vehicles with status "Model not loaded".
C4_ModelUnavailableReported ==
    \A p \in Pipes :
        (model = "none" /\ analysis_data[p] = NotLoadedAnalysis) =>
            /\ get_latest_analysis.vehicle_count = 0
            /\ get_latest_analysis.status = "Model not loaded"

\* C5 (as claimed): a detection call that raises does not end the generator.
C5_DetectionFailureAbsorbed ==
    \A p \in Pipes : ppc[p] # "raised"

\* C6 (as claimed): a generator closed by its consumer has released the
\* video handle it opened.
C6_ReleasedOnCancel ==
    \A p \in Pipes : ppc[p] = "closed" => handle[p] = "released"

\* C7: with one generator, the clock readings of consecutive _save_frame
\* calls are more than capture_interval apart, and the first one is more
\* than capture_interval after construction (clock reading 0).
C7_CaptureSpacing ==
    \A i \in 1 .. Len(captures) :
        captures[i] - (IF i = 1 THEN 0 ELSE captures[i - 1]) > 5

\* C7 witness: two captures were made, with iterations between them.
C7_Witness ==
    /\ Len(captures) >= 2
    /\ ppc[1] = "yielded"

\* C8: the suggested duration, the duration read at Green entry and the
\* green dwell all lie in [5 s, 20 s], for every input of the update.
C8_DurationInRange ==
    /\ Halves(5) <= current_green_duration
    /\ current_green_duration <= Halves(20)
    /\ current_duration # Unset =>
           Halves(5) <= current_duration /\ current_duration <= Halves(20)
    /\ (phase = "green" /\ cpc = "sleeping") =>
           Halves(5) <= sleepArg /\ sleepArg <= Halves(20)

\* C8 witness: the largest count was passed and green dwells at the maximum.
C8_Witness ==
    /\ Get(last_update, "vehicle_count", 0) = MaxVehicles
    /\ phase = "green"
    /\ cpc = "sleeping"
    /\ sleepArg = Halves(20)

\* C9: after update_logic_with_analysis with count n the suggested duration
\* is clamp(5 + 0.5 n, 5, 20) (0 -> 5 s, 10 -> 10 s, 40 -> 20 s), and a Green
\* entry with no update in between reads and dwells for that value.
C9_UpdateThenGreen ==
    /\ [](DOMAIN last_update # {} =>
            LET n == Get(last_update, "vehicle_count", 0) IN
            /\ current_green_duration = SpecifiedDuration(n)
            /\ n = 0 => current_green_duration = Halves(5)
            /\ n = 10 => current_green_duration = Halves(10)
            /\ n = 40 => current_green_duration = Halves(20))
    /\ []((phase = "green" /\ cpc = "sleeping") => sleepArg = current_duration)
    /\ [][(GreenEntryRead /\ DOMAIN last_update # {}) =>
            current_duration' =
                SpecifiedDuration(Get(last_update, "vehicle_count", 0))]_vars

\* C9 witness: count 10 was passed and the green phase dwells 10 s.
C9_Witness ==
    /\ Get(last_update, "vehicle_count", 1) = 10
    /\ phase = "green"
    /\ cpc = "sleeping"
    /\ sleepArg = Halves(10)

\* C10: each frame a generator reads is the one after the frame it read
\* before, frame 0 following the last; a failed read leaves the generator
\* in its loop with the video at frame 0.
C10_FrameOrder ==
    [][\A p \in Pipes :
         /\ (ppc[p] = "read" /\ ppc'[p] = "process") =>
                last_pulled'[p] =
                    IF last_pulled[p] = Unset THEN 0
                    ELSE (last_pulled[p] + 1) % NumFrames
         /\ (ppc[p] = "read" /\ pos[p] = NumFrames) => ppc'[p] = "read"
         /\ (ppc[p] = "read" /\ pos[p] = NumFrames /\ frame'[p] # frame[p]) =>
                pos'[p] = 0
         /\ last_pulled'[p] # last_pulled[p] => ppc[p] = "read"]_vars

\* C10 witness: the last frame was emitted and frame 0 was read again.
C10_Witness ==
    /\ last_emitted[1].index = NumFrames - 1
    /\ last_pulled[1] = 0
    /\ ppc[1] = "process"

\* ---------------------------------------------------------------- fairness
\* The cycle thread is a daemon thread of its own (traffic_light.py 30-31)
\* and is always scheduled: each of its steps that stays enabled is taken,
\* and a lock it asks for again and again while the lock is free again and
\* again is granted.
CtlFairness ==
    /\ WF_vars(CtlSetWrite)
    /\ WF_vars(CtlSetPrint)
    /\ WF_vars(CtlDurRead)
    /\ WF_vars(CtlSleep)
    /\ WF_vars(CtlWake)
    /\ SF_vars(CtlSetAcquire)
    /\ SF_vars(CtlDurAcquire)

\* A thread inside a with block runs to the end of the block. Nothing else
\* is assumed of the pipeline: a generator may never be started, may stay in
\* the detection call, may end, or may go round at any rate.
HolderFairness == \A p \in Pipes : WF_vars(UpdateWrite(p))

\* The cycle thread and one generator, under fair scheduling.
NextLive == Controller \/ Analyse(1) \/ Emit(1)

SpecLive == Init /\ [][NextLive]_vars /\ CtlFairness /\ HolderFairness

\* C11: under fair scheduling the cycle never stops: red, green and yellow
\* are each entered again and again, whatever the pipeline does (never
\* started, staying in the detection call, ended by an error or by a source
\* that does not open, or calling update_logic_with_analysis at any rate).
C11_CycleNeverStops ==
    /\ []<>(state = "red")
    /\ []<>(state = "green")
    /\ []<>(state = "yellow")

\* A full cycle has been run (a green duration was read and the light is red
\* again) although the generator ended with an exception.
C11_Witness ==
    /\ state = "red"
    /\ current_duration # Unset
    /\ ppc[1] = "raised"

\* C12: when the video source cannot be opened, generate_frames ends without
\* raising and without a frame: nothing is read, detected, emitted or
\* captured, update_logic_with_analysis is not called, and the retained
\* result and the suggested green duration stay as constructed.
C12_UnopenedSourceEndsEmpty ==
    ~video_ok =>
        \A p \in Pipes :
            /\ ppc[p] \in {"not_started", "finished"}
            /\ last_pulled[p] = Unset
            /\ labels[p] = <<>>
            /\ analysis_data[p] = InitialAnalysis
            /\ last_emitted[p].index = Unset
            /\ last_update = EmptyDict
            /\ captures = <<>>
            /\ last_capture_time = 0
            /\ get_latest_analysis = InitialAnalysis
            /\ current_green_duration = Halves(green_light_base_duration)

\* The generator has ended on a source that did not open, and enough time
\* has passed since for a capture to be due.
C12_Witness ==
    /\ ~video_ok
    /\ ppc[1] = "finished"
    /\ handle[1] = "unopened"
    /\ now > capture_interval

\* C13: for every frame on which detection succeeds, process_frame returns
\* a result whose vehicle_count is exactly the number of detections labelled
\* car, motorcycle, bus or truck (no other label is counted), hence not
\* negative, and whose status is Processing.
C13_CountsVehicleDetections ==
    [][\A p \in Pipes :
          (ppc[p] = "count" /\ ppc'[p] = "update") =>
              /\ analysis_data'[p].vehicle_count =
                    Cardinality({i \in DOMAIN labels[p] :
                        labels[p][i] \in {"car", "motorcycle", "bus", "truck"}})
              /\ analysis_data'[p].vehicle_count >= 0
              /\ analysis_data'[p].status = "Processing"]_vars

\* process_frame has returned for a frame in which every detection was a
\* vehicle, and for the frame before it at least one was not.
C13_Witness ==
    /\ ppc[1] = "update"
    /\ analysis_data[1] = ProcessingAnalysis(MaxDetections)
    /\ last_update \in {ProcessingAnalysis(n) : n \in 0 .. MaxDetections - 1}

\* ------------------------------------------------ concurrent stream consumers
\* app.run(threaded=True): every /video_feed request runs its own
\* generate_frames on the one VideoAnalyzer, here without a detection model.
InitRace == ConstructedWith("none", TRUE)

NextRace ==
    \/ \E p \in Pipes :
          \/ Open(p)
          \/ Read(p)
          \/ ProcessNoModel(p)
          \/ UpdateAcquire(p)
          \/ UpdateWrite(p)
          \/ CaptureCheck(p)
          \/ SaveFrame(p)
          \/ EncodeYield(p)
          \/ Resume(p)
    \/ Tick

SpecRace == InitRace /\ [][NextRace]_vars

\* C14 (as claimed): with several generators on the one analyzer, no two of
\* them have passed the capture test for the same interval at once, and the
\* clock readings of any two _save_frame calls are more than capture_interval
\* apart.
C14_CaptureRaceFree ==
    /\ \A p, r \in Pipes :
          p # r => ~(ppc[p] = "save" /\ ppc[r] = "save")
    /\ \A i, j \in 1 .. Len(captures) :
          i < j => \/ captures[j] - captures[i] > 5
                   \/ captures[i] - captures[j] > 5

\* C15: the suggested green duration is read once per cycle, at Green entry
\* (after _set_state('green') and nowhere else), the green dwell is the value
\* read, and a dwell in progress keeps its length whatever
\* update_logic_with_analysis calls arrive meanwhile; a new value is used
\* only by the read of the next Green entry.
C15_GreenDwellFixedAtEntry ==
    [][/\ (cpc = "sleeping" /\ cpc' = "sleeping") => sleepArg' = sleepArg
       /\ current_duration' # current_duration =>
              GreenEntryRead /\ current_duration' = current_green_duration
       /\ GreenEntryRead => phase = "green" /\ state = "green"
       /\ (cpc' = "read_duration" /\ cpc # "read_duration") =>
              phase = "green" /\ cpc \in {"set_state_locked", "set_state_print"}
       /\ (phase = "green" /\ cpc = "call_sleep" /\ cpc' = "sleeping") =>
              sleepArg' = current_duration]_vars

\* An update has changed the suggested duration during a green dwell, which
\* goes on with the length read at its entry.
C15_Witness ==
    /\ phase = "green"
    /\ cpc = "sleeping"
    /\ last_update # EmptyDict
    /\ sleepArg = current_duration
    /\ sleepArg # current_green_duration

\* C16 (as claimed): no thread holds state_lock or duration_lock while it is
\* in an I/O or compute step: not the cycle thread while it writes to the
\* console or sleeps, not a generator while it reads, detects, draws, writes
\* a capture, encodes, is suspended at the yield or has ended.
C16_NoLockAcrossBlockingStep ==
    /\ cpc \in {"set_state_print", "call_sleep", "sleeping"} =>
           state_lock # Ctl /\ duration_lock # Ctl
    /\ \A p \in Pipes :
           ppc[p] \in {"read", "process", "count", "save", "encode",
                       "yielded", "raised", "finished", "closed"} =>
               state_lock # PipeThread(p) /\ duration_lock # PipeThread(p)

\* C17: after a successful detection process_frame replaces the retained
\* result as a whole: what get_latest_analysis returns is always the initial
\* value or a complete Processing result, it changes only in the step in
\* which some process_frame call stores the result of its own detection, and
\* when process_frame returns the retained result is the one it returned, so
\* a later query sees that result or one stored after it.
C17_RetainedResultReplacedWhole ==
    [][/\ get_latest_analysis' \in
             {InitialAnalysis} \cup
             {ProcessingAnalysis(n) : n \in 0 .. MaxDetections}
       /\ get_latest_analysis' # get_latest_analysis =>
             \E p \in Pipes :
                 /\ ppc[p] = "count"
                 /\ ppc'[p] = "update"
                 /\ get_latest_analysis'.status = "Processing"
                 /\ get_latest_analysis'.vehicle_count =
                       Cardinality({i \in DOMAIN labels[p] :
                           labels[p][i] \in VehicleLabels})
       /\ \A p \in Pipes :
             (ppc[p] = "count" /\ ppc'[p] = "update") =>
                 get_latest_analysis' = analysis_data'[p]]_vars

\* process_frame has returned the result of a second detection, different
\* from the one before it, and that result is the retained one.
C17_Witness ==
    /\ ppc[1] = "update"
    /\ last_update = ProcessingAnalysis(MaxDetections)
    /\ analysis_data[1] = ProcessingAnalysis(0)
    /\ get_latest_analysis = ProcessingAnalysis(0)

\* C18: state is written only by the cycle thread, in _set_state: no step of
\* a generator changes it, update_logic_with_analysis changes only the
\* suggested green duration (nothing of the cycle thread, nothing of the
\* analyzer), and get_state changes nothing but its own result.
C18_SingleWriterOfState ==
    [][/\ state' # state =>
              /\ cpc = "set_state_locked"
              /\ cpc' = "set_state_print"
              /\ state_lock = Ctl
              /\ state' = phase
       /\ \A p \in Pipes : ppc'[p] # ppc[p] => state' = state
       /\ \A p \in Pipes :
              (ppc[p] \in {"update", "update_locked"} /\ ppc'[p] # ppc[p]) =>
                  UNCHANGED <<state, state_lock, ctlVars, queryVars,
                              analyzerVars, now, handle, pos, frame,
                              analysis_data, current_time, last_pulled,
                              last_emitted, captures, labels>>
       /\ \A q \in Queries :
              qpc'[q] # qpc[q] =>
                  UNCHANGED <<state, ctlVars, durVars, analyzerVars, now,
                              pipeVars>>]_vars

\* The suggested duration has been raised by an update and a query has
\* returned while the light, set by the cycle thread, is green.
C18_Witness ==
    /\ state = "green"
    /\ last_update # EmptyDict
    /\ current_green_duration > Halves(green_light_base_duration)
    /\ qpc[1] = "done"

\* C19: when encoding of a frame fails no chunk is emitted for it and the
\* generator goes on to read the next frame, neither ending nor rewinding;
\* a chunk is emitted only by a successful encode and is then the frame last
\* pulled, so the emitted frames are the pulled ones in the order of pulling,
\* less the ones dropped.
C19_EncodeFailureDropsFrame ==
    [][\A p \in Pipes :
          /\ (ppc[p] = "encode" /\ ppc'[p] # "encode") =>
                 ppc'[p] \in {"yielded", "read"}
          /\ (ppc[p] = "encode" /\ ppc'[p] = "read") =>
                 /\ last_emitted'[p] = last_emitted[p]
                 /\ pos'[p] = pos[p]
                 /\ handle'[p] = "open"
          /\ last_emitted'[p] # last_emitted[p] =>
                 /\ ppc[p] = "encode"
                 /\ ppc'[p] = "yielded"
                 /\ last_emitted'[p].index = last_pulled[p]]_vars

\* The first frame was emitted, the second was pulled and dropped at
\* encoding, and the generator is about to read again.
C19_Witness ==
    /\ ppc[1] = "read"
    /\ last_emitted[1].index = 0
    /\ last_pulled[1] = 1
    /\ pos[1] = 2

\* ------------------------------------------------------------ the two locks
\* Every thread that takes a lock: the cycle thread, each generator thread
\* at its update_logic_with_analysis call (here with the result of a frame
\* processed without a model), and each get_state caller.
NextLocks ==
    \/ Controller
    \/ \E p \in Pipes :
          \/ CallUpdate(p, NotLoadedAnalysis)
          \/ UpdateAcquire(p)
          \/ UpdateWrite(p)
    \/ \E q \in Queries : Query(q)

SpecLocks == InitRace /\ [][NextLocks]_vars

\* A thread stands before a with statement whose lock another thread holds.
CtlWaits ==
    \/ cpc = "set_state" /\ state_lock # NoThread
    \/ cpc = "read_duration" /\ duration_lock # NoThread

PipeWaits(p) == ppc[p] = "update" /\ duration_lock # NoThread

QueryWaits(q) == qpc[q] \in {"idle", "done"} /\ state_lock # NoThread

\* C20: no thread holds state_lock and duration_lock together; a held lock
\* is held by a thread inside the with block that took it, from which it
\* leaves by steps of its own (at most two for _set_state, three for
\* get_state, one for the green read and for the update) without waiting for
\* the other lock; so never do all threads wait for a lock.
C20_NoLockDeadlock ==
    /\ state_lock # NoThread => duration_lock # state_lock
    /\ state_lock \in {NoThread, Ctl} \cup {QueryThread(q) : q \in Queries}
    /\ duration_lock \in {NoThread, Ctl} \cup {PipeThread(p) : p \in Pipes}
    /\ state_lock = Ctl <=> cpc \in {"set_state_locked", "set_state_print"}
    /\ duration_lock = Ctl <=> cpc = "read_duration_locked"
    /\ \A q \in Queries :
          state_lock = QueryThread(q) <=> qpc[q] \in {"red", "yellow", "green"}
    /\ \A p \in Pipes :
          duration_lock = PipeThread(p) <=> ppc[p] = "update_locked"
    /\ ~(CtlWaits /\ (\A p \in Pipes : PipeWaits(p))
                  /\ (\A q \in Queries : QueryWaits(q)))

\* The cycle thread and one generator wait for duration_lock, held by
\* another generator inside its update, while a query holds state_lock.
C20_Witness ==
    /\ cpc = "read_duration"
    /\ duration_lock = PipeThread(1)
    /\ ppc[2] = "update"
    /\ state_lock = QueryThread(1)

====
